---- MODULE Spec2Model ----
(***************************************************************************)
(* Model of src/bot.py: the per-owner pending URL (context.user_data),     *)
(* the membership gate (get_chat_member), the Redis artifact cache and the *)
(* download_file / send_file_from_cache coordinator.                       *)
(*                                                                         *)
(* Strings that the code slices, strips or concatenates are sequences of   *)
(* one-character strings, so that strip and the cache key are computed as  *)
(* the code computes them.                                                 *)
(*                                                                         *)
(* handle_url and joined_channel are one step each; a download_file task   *)
(* is split at its awaits, and steps of different tasks and handlers may   *)
(* interleave there (a run in which every handler finishes before the next *)
(* starts is one of these interleavings).  Sending a text or editing a     *)
(* message is taken to succeed; get_chat_member, the extraction engine and *)
(* the file transfer may fail.                                             *)
(***************************************************************************)
EXTENDS Integers, Sequences, FiniteSets, TLC

VARIABLES
    video_url,      \* owner -> context.user_data["video_url"] (Absent when unset)
    in_channel,     \* owner -> the oracle currently reports a member status
    cache,          \* Redis: key -> [loc, storedAt, expiry, by]; by is the owner
                    \* whose task stored the entry
    files,          \* artifact paths that exist on the local filesystem
    now,            \* wall clock, seconds
    task,           \* slot -> a download_file task (running, finished or unused)
    optionsShown,   \* owner -> a Video/MP3 keyboard exists in the chat
    joinShown,      \* owner -> an "I've Joined" button exists in the chat
    gatePassed,     \* owner -> a check made since the URL was stored said Allowed
    lastEvent,      \* the gate handler run by the last step, if any, with what
                    \* it saw and did
    lastTask,       \* the download task stepped by the last step, if any
    updates,        \* inbound updates processed since the initial state
    keyq            \* inputs and outputs of the key-derivation check

vars == <<video_url, in_channel, cache, files, now, task, optionsShown,
          joinShown, gatePassed, lastEvent, lastTask, updates, keyq>>

(***************************************************************************)
(* Bounds of the model.                                                    *)
(***************************************************************************)
MaxUpdates == 3
MaxTicks == 2
TickSeconds == 43200
MaxUrlLen == 2

Owners == {"o1", "o2"}

\* 3600 * 24, the ttl passed to setex
TTL_HOURS == 24
SECONDS_PER_HOUR == 3600
TTL == SECONDS_PER_HOUR * TTL_HOURS

(***************************************************************************)
(* Strings.                                                                *)
(***************************************************************************)
Absent == <<>>
Whitespace == {" "}

\* The text messages the transport delivers (never blank).
Texts == {<<"a">>, <<" ", "b", " ">>}

RECURSIVE lstrip(_)
lstrip(s) == IF s # <<>> /\ Head(s) \in Whitespace THEN lstrip(Tail(s)) ELSE s

RECURSIVE rstrip(_)
rstrip(s) ==
    IF s # <<>> /\ s[Len(s)] \in Whitespace
    THEN rstrip(SubSeq(s, 1, Len(s) - 1))
    ELSE s

\* str.strip()
strip(s) == rstrip(lstrip(s))

\* callback_data of the two format buttons, pattern "^(video|mp3)$"
FmtVideo == <<"v", "i", "d", "e", "o">>
FmtMp3 == <<"m", "p", "3">>
Choices == {FmtVideo, FmtMp3}

deriveKey_no_choice(url, choice) == url \o <<"_">>

\* file_key = f"{url}_{choice}"
deriveKey(url, choice) == url \o <<"_">> \o choice

\* ydl.prepare_filename(info): the path the engine writes for (url, choice)
prepare_filename(url, choice) == [src |-> url, fmt |-> choice]

NoPath == [src |-> <<>>, fmt |-> <<>>]

(***************************************************************************)
(* The membership gate.                                                    *)
(***************************************************************************)
MemberStatuses == {"member", "administrator", "creator"}
\* "unrecognised" stands for any status string the code does not list
OtherStatuses == {"left", "kicked", "restricted", "unrecognised"}
Statuses == MemberStatuses \cup OtherStatuses

\* The statuses the oracle can report for an owner right now.
CurrentStatuses(o) == IF in_channel[o] THEN MemberStatuses ELSE OtherStatuses

\* Exceptions get_chat_member can raise: the two handle_url catches, and any
\* other TelegramError.
Failures == {"RetryAfter", "NetworkError", "TelegramError"}

NoEvent ==
    [kind |-> "none", owner |-> "none", text |-> <<>>, hadUrl |-> FALSE,
     oracle |-> FALSE, outcome |-> "none", decision |-> "none",
     reply |-> "none", log |-> "none", raised |-> FALSE]

\* No task: an unused slot, and lastTask after a step that stepped no task.
IdleTask ==
    [pc |-> "idle", step |-> "none", owner |-> "none", url |-> Absent,
     choice |-> FmtVideo, path |-> NoPath, hit |-> FALSE, stale |-> FALSE,
     engine |-> FALSE, stored |-> FALSE, sent |-> NoPath, msg |-> "none",
     gated |-> FALSE, entryAge |-> -1]

get_chat_member_cached(o) ==
    IF joinShown[o]
    THEN OtherStatuses \cup Failures
    ELSE CurrentStatuses(o) \cup Failures

\* await context.bot.get_chat_member(...): the status the oracle reports now,
\* or an exception
get_chat_member(o) == CurrentStatuses(o) \cup Failures

\* show_download_options: what it sends, given the stored URL
show_download_options(url) == IF url = Absent THEN "no_url" ELSE "options"

handle_url_reply_fail_open(outcome, url) ==
    IF outcome \in Statuses \ MemberStatuses
    THEN [decision |-> "MustJoin", reply |-> "join_prompt", log |-> "none",
          raised |-> FALSE]
    ELSE [decision |-> IF outcome \in Statuses THEN "Allowed" ELSE "Unavailable",
          reply |-> show_download_options(url),
          log |-> IF outcome \in Statuses THEN "none" ELSE "error",
          raised |-> FALSE]

handle_url_reply_tell_user(outcome, url) ==
    CASE outcome \in Statuses \ MemberStatuses ->
            [decision |-> "MustJoin", reply |-> "join_prompt", log |-> "none",
             raised |-> FALSE]
      [] outcome \in MemberStatuses ->
            [decision |-> "Allowed", reply |-> show_download_options(url),
             log |-> "none", raised |-> FALSE]
      [] OTHER ->
            [decision |-> "Unavailable", reply |-> "check_failed",
             log |-> "error", raised |-> FALSE]

\* handle_url, lines 39-56: the branch taken on each outcome of the check
handle_url_reply(outcome, url) ==
    CASE outcome \in Statuses \ MemberStatuses ->
            [decision |-> "MustJoin", reply |-> "join_prompt", log |-> "none",
             raised |-> FALSE]
      [] outcome \in MemberStatuses ->
            [decision |-> "Allowed", reply |-> show_download_options(url),
             log |-> "none", raised |-> FALSE]
      [] outcome = "RetryAfter" ->
            [decision |-> "Unavailable", reply |-> "none", log |-> "warning",
             raised |-> FALSE]
      [] outcome = "NetworkError" ->
            [decision |-> "Unavailable", reply |-> "none", log |-> "error",
             raised |-> FALSE]
      [] OTHER ->
            \* not caught: the exception leaves the handler
            [decision |-> "Unavailable", reply |-> "none", log |-> "none",
             raised |-> TRUE]

joined_channel_reply_lenient(outcome, url) ==
    CASE outcome \in Statuses \ (MemberStatuses \cup {"restricted"}) ->
            [decision |-> "MustJoin", reply |-> "join_first_alert",
             log |-> "none", raised |-> FALSE]
      [] outcome \in MemberStatuses \cup {"restricted"} ->
            [decision |-> "Allowed", reply |-> show_download_options(url),
             log |-> "none", raised |-> FALSE]
      [] OTHER ->
            [decision |-> "Unavailable", reply |-> "none", log |-> "error",
             raised |-> FALSE]

\* joined_channel, lines 79-88
joined_channel_reply(outcome, url) ==
    CASE outcome \in Statuses \ MemberStatuses ->
            [decision |-> "MustJoin", reply |-> "join_first_alert",
             log |-> "none", raised |-> FALSE]
      [] outcome \in MemberStatuses ->
            [decision |-> "Allowed", reply |-> show_download_options(url),
             log |-> "none", raised |-> FALSE]
      [] OTHER ->
            [decision |-> "Unavailable", reply |-> "none", log |-> "error",
             raised |-> FALSE]

put_video_url_if_allowed(o, url, decision) ==
    IF decision = "Allowed" THEN [video_url EXCEPT ![o] = url] ELSE video_url

put_video_url_all(o, url, decision) == [q \in Owners |-> url]

\* context.user_data["video_url"] = url
put_video_url(o, url, decision) == [video_url EXCEPT ![o] = url]

\* A text message from owner o.
handle_url(o, text) ==
    /\ updates < MaxUpdates
    /\ \E outcome \in get_chat_member(o) :
         LET url == strip(text)
             r == handle_url_reply(outcome, url)
         IN  /\ video_url' = put_video_url(o, url, r.decision)
             /\ optionsShown' =
                    [optionsShown EXCEPT ![o] = @ \/ r.reply = "options"]
             /\ joinShown' =
                    [joinShown EXCEPT ![o] = @ \/ r.reply = "join_prompt"]
             /\ gatePassed' = [gatePassed EXCEPT ![o] = r.decision = "Allowed"]
             /\ lastEvent' =
                    [kind |-> "handle_url", owner |-> o, text |-> text,
                     hadUrl |-> TRUE, oracle |-> in_channel[o],
                     outcome |-> outcome, decision |-> r.decision,
                     reply |-> r.reply, log |-> r.log, raised |-> r.raised]
    /\ updates' = updates + 1
    /\ lastTask' = IdleTask
    /\ UNCHANGED <<in_channel, cache, files, now, task, keyq>>

\* A press of the "I've Joined" button by owner o.
joined_channel(o) ==
    /\ updates < MaxUpdates
    /\ joinShown[o]
    /\ \E outcome \in get_chat_member(o) :
         LET r == joined_channel_reply(outcome, video_url[o])
         IN  /\ optionsShown' =
                    [optionsShown EXCEPT ![o] = @ \/ r.reply = "options"]
             /\ gatePassed' =
                    [gatePassed EXCEPT ![o] = @ \/ r.decision = "Allowed"]
             /\ lastEvent' =
                    [kind |-> "joined_channel", owner |-> o, text |-> <<>>,
                     hadUrl |-> video_url[o] # Absent,
                     oracle |-> in_channel[o],
                     outcome |-> outcome, decision |-> r.decision,
                     reply |-> r.reply, log |-> r.log, raised |-> r.raised]
    /\ updates' = updates + 1
    /\ lastTask' = IdleTask
    /\ UNCHANGED <<video_url, in_channel, cache, files, now, task, joinShown,
                   keyq>>

(***************************************************************************)
(* The Redis cache.                                                        *)
(***************************************************************************)
redis_get_always_miss(key) == NoPath

redis_get_ignore_expiry(key) ==
    IF key \in DOMAIN cache THEN cache[key].loc ELSE NoPath

\* redis_client.get(file_key): the stored value, or nothing when the key was
\* never set or its ttl has run out
redis_get(key) ==
    IF key \in DOMAIN cache /\ now < cache[key].expiry
    THEN cache[key].loc
    ELSE NoPath

redis_setex_dropped(key, ttl, value) == cache

redis_setex_if_absent(key, ttl, value) ==
    [k \in DOMAIN cache \cup {key} |->
        IF k \in DOMAIN cache
        THEN cache[k]
        ELSE [loc |-> value, storedAt |-> now, expiry |-> now + ttl,
              by |-> "none"]]

\* redis_client.setex(file_key, ttl, file_path): unconditional overwrite
redis_setex(key, ttl, value) ==
    [k \in DOMAIN cache \cup {key} |->
        IF k = key
        THEN [loc |-> value, storedAt |-> now, expiry |-> now + ttl,
              by |-> "none"]
        ELSE cache[k]]

\* Bookkeeping: note on the entry of key, if there is one, that a task of
\* owner o stored it.
stored_by(c, key, o) ==
    [k \in DOMAIN c |-> IF k = key THEN [c[k] EXCEPT !.by = o] ELSE c[k]]

(***************************************************************************)
(* download_file and send_file_from_cache.  Every button press starts a    *)
(* task of its own; tasks of one owner are not serialized.  A task moves   *)
(* from one await to the next in one step; a slot is free again once its   *)
(* task has ended.  lastTask is the task that made the last step, as that  *)
(* step left it.                                                           *)
(***************************************************************************)
Slots == {1, 2}

Running == {"resolving", "cachehit", "sending"}

\* What a slot keeps of a task after a step.
Kept(t) ==
    IF t.pc = "done"
    THEN IdleTask
    ELSE [t EXCEPT !.gated = FALSE, !.entryAge = -1]

download_file_begin_unchecked(o, url, choice) ==
    [IdleTask EXCEPT !.pc = "resolving", !.step = "begin", !.owner = o,
                     !.url = url, !.choice = choice, !.msg = "wait"]

\* download_file, lines 92-101: read the stored URL, stop if there is none
download_file_begin(o, url, choice) ==
    IF url = Absent
    THEN [IdleTask EXCEPT !.pc = "done", !.step = "begin", !.owner = o,
                          !.choice = choice, !.msg = "no_url"]
    ELSE [IdleTask EXCEPT !.pc = "resolving", !.step = "begin", !.owner = o,
                          !.url = url, !.choice = choice, !.msg = "wait"]

user_data_pop(o) == [video_url EXCEPT ![o] = Absent]

\* context.user_data.get("video_url"), line 95: a read; the entry stays
user_data_get(o) == video_url

\* A press of the Video or MP3 button by owner o.
download_file(o, choice) ==
    /\ updates < MaxUpdates
    /\ optionsShown[o]
    /\ \E s \in Slots :
         /\ task[s].pc = "idle"
         /\ \A r \in Slots : r < s => task[r].pc # "idle"
         /\ LET t == [download_file_begin(o, video_url[o], choice)
                        EXCEPT !.gated = gatePassed[o]]
            IN  /\ task' = [task EXCEPT ![s] = Kept(t)]
                /\ lastTask' = t
    /\ video_url' = user_data_get(o)
    /\ updates' = updates + 1
    /\ lastEvent' = NoEvent
    /\ UNCHANGED <<in_channel, cache, files, now, optionsShown,
                   joinShown, gatePassed, keyq>>

engine_failed_retry(t) == [t EXCEPT !.pc = "resolving", !.engine = TRUE]

\* download_file, lines 129-131: the engine raised; show its error and stop
engine_failed(t) ==
    [t EXCEPT !.pc = "done", !.engine = TRUE, !.msg = "engine_error"]

\* download_file, lines 125 and 129-131: the engine produced the file but
\* redis_client.setex raised; the same handler shows the error and stops
store_failed(t, file_path) ==
    [t EXCEPT !.pc = "done", !.path = file_path, !.engine = TRUE,
              !.msg = "store_error"]

extract_url_reread(t) == video_url[t.owner]

\* download_file, line 121: the URL handed to the engine is the one read at
\* line 95
extract_url(t) == t.url

\* download_file, lines 104-131, up to the next await: the cache lookup, and
\* on a miss the engine call and the store (no await lies between them).
\* redis_client.get stands outside the try: if it raises, the exception
\* leaves the handler and the user is told nothing more.
download_resolve(s) ==
    /\ task[s].pc = "resolving"
    /\ \E lookup_ok \in BOOLEAN :
        IF ~lookup_ok
        THEN LET u == [task[s] EXCEPT !.pc = "done",
                                      !.step = "lookup_failed"]
             IN  /\ task' = [task EXCEPT ![s] = Kept(u)]
                 /\ lastTask' = u
                 /\ UNCHANGED <<cache, files>>
        ELSE
        LET file_key == deriveKey(task[s].url, task[s].choice)
            cached_file == redis_get(file_key)
            \* how long ago the key was last stored, -1 if never
            age == IF file_key \in DOMAIN cache
                   THEN now - cache[file_key].storedAt
                   ELSE -1
            t == [task[s] EXCEPT !.step = "resolve", !.entryAge = age]
        IN  IF cached_file # NoPath
            THEN LET u == [t EXCEPT !.pc = "cachehit", !.path = cached_file,
                                    !.hit = TRUE, !.msg = "from_cache"]
                 IN  /\ task' = [task EXCEPT ![s] = Kept(u)]
                     /\ lastTask' = u
                     /\ UNCHANGED <<cache, files>>
            ELSE \E result \in {"stored", "engine_error", "store_error"} :
                   CASE result = "stored" ->
                        LET file_path ==
                                prepare_filename(extract_url(t), t.choice)
                            u == [t EXCEPT !.pc = "sending",
                                           !.path = file_path,
                                           !.engine = TRUE, !.stored = TRUE]
                        IN  /\ files' = files \cup {file_path}
                            /\ cache' =
                                 stored_by(redis_setex(file_key, TTL,
                                                       file_path),
                                           file_key, t.owner)
                            /\ task' = [task EXCEPT ![s] = Kept(u)]
                            /\ lastTask' = u
                     [] result = "store_error" ->
                        LET file_path ==
                                prepare_filename(extract_url(t), t.choice)
                            u == store_failed(t, file_path)
                        IN  /\ files' = files \cup {file_path}
                            /\ task' = [task EXCEPT ![s] = Kept(u)]
                            /\ lastTask' = u
                            /\ UNCHANGED cache
                     [] OTHER ->
                        LET u == engine_failed(t)
                        IN  /\ task' = [task EXCEPT ![s] = Kept(u)]
                            /\ lastTask' = u
                            /\ UNCHANGED <<cache, files>>
    /\ lastEvent' = NoEvent
    /\ UNCHANGED <<video_url, in_channel, now, optionsShown, joinShown,
                   gatePassed, updates, keyq>>

file_check_reextract(t, exists) ==
    IF exists
    THEN [t EXCEPT !.pc = "sending", !.step = "check"]
    ELSE [t EXCEPT !.pc = "sending", !.step = "check", !.stale = TRUE,
                   !.engine = TRUE, !.stored = TRUE]

\* send_file_from_cache, lines 136-138, on the cache path
file_check(t, exists) ==
    IF exists
    THEN [t EXCEPT !.pc = "sending", !.step = "check"]
    ELSE [t EXCEPT !.pc = "done", !.step = "check", !.stale = TRUE,
                   !.msg = "not_found"]

send_file_check(s) ==
    /\ task[s].pc = "cachehit"
    /\ LET u == file_check(task[s], task[s].path \in files)
       IN  /\ task' = [task EXCEPT ![s] = Kept(u)]
           /\ lastTask' = u
    /\ lastEvent' = NoEvent
    /\ UNCHANGED <<video_url, in_channel, cache, files, now, optionsShown,
                   joinShown, gatePassed, updates, keyq>>

\* send_file_from_cache, lines 140-149: open the file and hand it to the
\* transport; any exception ends in the generic send error
send_file(s) ==
    /\ task[s].pc = "sending"
    /\ \E transport_ok \in BOOLEAN :
         LET t == task[s]
             u == IF t.path \in files /\ transport_ok
                  THEN [t EXCEPT !.pc = "done", !.step = "send",
                                 !.sent = t.path, !.msg = "complete"]
                  ELSE [t EXCEPT !.pc = "done", !.step = "send",
                                 !.msg = "send_error"]
         IN  /\ task' = [task EXCEPT ![s] = Kept(u)]
             /\ lastTask' = u
    /\ lastEvent' = NoEvent
    /\ UNCHANGED <<video_url, in_channel, cache, files, now, optionsShown,
                   joinShown, gatePassed, updates, keyq>>

(***************************************************************************)
(* The environment.                                                        *)
(***************************************************************************)
\* Time passes (the clock starts with the first store).
Tick ==
    /\ cache # <<>>
    /\ now + TickSeconds <= MaxTicks * TickSeconds
    /\ now' = now + TickSeconds
    /\ lastEvent' = NoEvent
    /\ lastTask' = IdleTask
    /\ UNCHANGED <<video_url, in_channel, cache, files, task, optionsShown,
                   joinShown, gatePassed, updates, keyq>>

\* An artifact is removed from the temporary directory.
DeleteFile(p) ==
    /\ p \in files
    /\ files' = files \ {p}
    /\ lastEvent' = NoEvent
    /\ lastTask' = IdleTask
    /\ UNCHANGED <<video_url, in_channel, cache, now, task, optionsShown,
                   joinShown, gatePassed, updates, keyq>>

\* The owner joins the channel, or leaves it or is removed from it.
SetStatus(o, b) ==
    /\ in_channel[o] # b
    /\ in_channel' = [in_channel EXCEPT ![o] = b]
    /\ lastEvent' = NoEvent
    /\ lastTask' = IdleTask
    /\ UNCHANGED <<video_url, cache, files, now, task, optionsShown, joinShown,
                   gatePassed, updates, keyq>>

\* The process is started again: user_data lives in memory and is lost, the
\* chats, Redis and the temporary directory are not.
Restart ==
    /\ \E o \in Owners : video_url[o] # Absent
    /\ video_url' = [o \in Owners |-> Absent]
    /\ task' = [s \in Slots |-> IdleTask]
    /\ gatePassed' = [o \in Owners |-> FALSE]
    /\ lastEvent' = NoEvent
    /\ lastTask' = IdleTask
    /\ UNCHANGED <<in_channel, cache, files, now, optionsShown, joinShown,
                   updates, keyq>>

(***************************************************************************)
(* Key derivation on its own.                                              *)
(***************************************************************************)
Alphabet == {"_", "3"}

RECURSIVE StringsUpTo(_)
StringsUpTo(n) ==
    IF n = 0
    THEN {<<>>}
    ELSE LET shorter == StringsUpTo(n - 1)
         IN  shorter \cup {Append(s, c) : s \in shorter, c \in Alphabet}

\* Non-empty URLs and URL tails that can hold the delimiter and a format's tail
KeyUrls == (StringsUpTo(MaxUrlLen) \ {<<>>})
             \cup {<<"a">>, <<"a", "_", "m", "p">>, <<"_", "m", "p", "3">>}

NoKeyQuery ==
    [u1 |-> <<>>, f1 |-> <<>>, u2 |-> <<>>, f2 |-> <<>>,
     k1 |-> <<>>, k2 |-> <<>>, done |-> FALSE]

ComputeKeys ==
    /\ ~keyq.done
    /\ keyq' = [keyq EXCEPT !.k1 = deriveKey(keyq.u1, keyq.f1),
                            !.k2 = deriveKey(keyq.u2, keyq.f2),
                            !.done = TRUE]
    /\ lastEvent' = NoEvent
    /\ lastTask' = IdleTask
    /\ UNCHANGED <<video_url, in_channel, cache, files, now, task,
                   optionsShown, joinShown, gatePassed, updates>>

(***************************************************************************)
(* Specifications.                                                         *)
(***************************************************************************)
InitBot ==
    /\ video_url = [o \in Owners |-> Absent]
    /\ in_channel \in [Owners -> BOOLEAN]
    /\ cache = <<>>
    /\ files = {}
    /\ now = 0
    /\ task = [s \in Slots |-> IdleTask]
    /\ optionsShown = [o \in Owners |-> FALSE]
    /\ joinShown = [o \in Owners |-> FALSE]
    /\ gatePassed = [o \in Owners |-> FALSE]
    /\ lastEvent = NoEvent
    /\ lastTask = IdleTask
    /\ updates = 0

Init == InitBot /\ keyq = NoKeyQuery

Next ==
    \/ \E o \in Owners, text \in Texts : handle_url(o, text)
    \/ \E o \in Owners : joined_channel(o)
    \/ \E o \in Owners, choice \in Choices : download_file(o, choice)
    \/ \E s \in Slots : download_resolve(s)
    \/ \E s \in Slots : send_file_check(s)
    \/ \E s \in Slots : send_file(s)
    \/ Tick
    \/ \E p \in files : DeleteFile(p)
    \/ \E o \in Owners, b \in BOOLEAN : SetStatus(o, b)
    \/ Restart

Spec == Init /\ [][Next]_vars

\* The bot after one owner, a member of the channel, has sent the URL "a"
\* and has been shown the format choices: the state handle_url leaves then.
InitShared ==
    /\ video_url = [o \in Owners |-> IF o = "o2" THEN <<"a">> ELSE Absent]
    /\ in_channel \in {f \in [Owners -> BOOLEAN] : f["o2"]}
    /\ cache = <<>>
    /\ files = {}
    /\ now = 0
    /\ task = [s \in Slots |-> IdleTask]
    /\ optionsShown = [o \in Owners |-> o = "o2"]
    /\ joinShown = [o \in Owners |-> FALSE]
    /\ gatePassed = [o \in Owners |-> o = "o2"]
    /\ lastEvent = NoEvent
    /\ lastTask = IdleTask
    /\ updates = 0
    /\ keyq = NoKeyQuery

\* The handlers and the clock, from there on.
NextShared ==
    \/ \E o \in Owners, text \in Texts : handle_url(o, text)
    \/ \E o \in Owners : joined_channel(o)
    \/ \E o \in Owners, choice \in Choices : download_file(o, choice)
    \/ \E s \in Slots : download_resolve(s)
    \/ \E s \in Slots : send_file_check(s)
    \/ \E s \in Slots : send_file(s)
    \/ Tick

SpecShared == InitShared /\ [][NextShared]_vars

InitKey ==
    /\ InitBot
    /\ keyq \in [u1 : KeyUrls, f1 : Choices, u2 : KeyUrls, f2 : Choices,
                 k1 : {<<>>}, k2 : {<<>>}, done : {FALSE}]

NextKey == ComputeKeys

SpecKey == InitKey /\ [][NextKey]_vars

(***************************************************************************)
(* Properties.                                                             *)
(***************************************************************************)
\* The cache key of the task that made the last step.
LastKey == deriveKey(lastTask.url, lastTask.choice)

\* A whole day, in seconds.
Day == 24 * 3600

C2_GatedAccess ==
    (lastTask.step = "begin" /\ lastTask.pc = "resolving") => lastTask.gated

\* C3: a format selection whose key has an unexpired entry takes the cache
\* path: the engine is not called and nothing is stored, and what it then
\* sends is the location stored under the key.
C3_CacheHitPath ==
    /\ (lastTask.step = "resolve"
            /\ lastTask.entryAge >= 0 /\ lastTask.entryAge < Day)
        => /\ lastTask.hit
           /\ ~lastTask.engine
           /\ ~lastTask.stored
           /\ lastTask.path = cache[LastKey].loc
    /\ lastTask.hit => (~lastTask.engine /\ ~lastTask.stored)
    /\ (lastTask.hit /\ lastTask.sent # NoPath)
        => /\ LastKey \in DOMAIN cache
           /\ lastTask.sent = cache[LastKey].loc

C3_Witness ==
    /\ lastTask.hit
    /\ lastTask.msg = "complete"
    /\ lastTask.sent = cache[LastKey].loc
    /\ ~lastTask.engine

\* C4: a format selection made while no URL is stored for the owner ends with
\* the "send it again" message without looking up the cache, calling the
\* engine, storing or sending; no task is ever resolving without a URL.
C4_NoPendingURL ==
    /\ (lastTask.step = "begin" /\ video_url[lastTask.owner] = Absent)
        => /\ lastTask.pc = "done"
           /\ lastTask.msg = "no_url"
           /\ ~lastTask.hit
           /\ ~lastTask.engine
           /\ ~lastTask.stored
           /\ lastTask.sent = NoPath
           /\ lastTask.entryAge = -1
    /\ \A s \in Slots : task[s].pc \in Running => task[s].url # Absent
    /\ lastTask.msg = "no_url" => lastTask.step = "begin"

C4_Witness ==
    /\ lastTask.step = "begin"
    /\ lastTask.msg = "no_url"
    /\ optionsShown[lastTask.owner]
    /\ video_url[lastTask.owner] = Absent

\* C5: a membership check that fails is never treated as Allowed, in
\* handle_url or in joined_channel: the format choices are not presented.
C5_DefaultDeny ==
    lastEvent.outcome \in Failures =>
        /\ lastEvent.decision = "Unavailable"
        /\ lastEvent.reply # "options"
        /\ ~gatePassed[lastEvent.owner] \/ lastEvent.kind = "joined_channel"

C5_Witness ==
    /\ lastEvent.kind = "joined_channel"
    /\ lastEvent.outcome = "NetworkError"
    /\ lastEvent.oracle
    /\ lastEvent.hadUrl
    /\ lastEvent.reply = "none"
    /\ ~optionsShown[lastEvent.owner]

C9_FreshAndPresented ==
    lastEvent.outcome \in Statuses =>
        /\ lastEvent.decision = "Allowed" <=> lastEvent.oracle
        /\ lastEvent.decision = "MustJoin" <=> ~lastEvent.oracle
        /\ lastEvent.decision = "Allowed" => lastEvent.reply = "options"

\* C9 (amended): a check that the oracle answers decides Allowed exactly
\* when the oracle reports a member status at that moment, whatever earlier
\* checks decided; an Allowed check presents the format choices if a URL is
\* stored for the owner and the "send it again" message if none is.
C9_GateFreshness ==
    lastEvent.outcome \in Statuses =>
        /\ lastEvent.decision = "Allowed" <=> lastEvent.oracle
        /\ lastEvent.decision = "MustJoin" <=> ~lastEvent.oracle
        /\ (lastEvent.decision = "Allowed" /\ lastEvent.hadUrl)
            => lastEvent.reply = "options"
        /\ (lastEvent.decision = "Allowed" /\ ~lastEvent.hadUrl)
            => lastEvent.reply = "no_url"
        /\ lastEvent.decision = "MustJoin"
            => lastEvent.reply \in {"join_prompt", "join_first_alert"}

\* A MustJoin prompt was sent, the owner joined, and the re-check allows.
C9_Witness ==
    /\ lastEvent.kind = "joined_channel"
    /\ joinShown[lastEvent.owner]
    /\ lastEvent.oracle
    /\ lastEvent.decision = "Allowed"
    /\ lastEvent.reply = "options"

\* C7: the cache key is url + "_" + choice, and two (url, choice) pairs with
\* choice among the two button formats share a key only if they are the same
\* pair, also when the URLs contain the delimiter.
C7_KeyInjective ==
    keyq.done =>
        /\ keyq.k1 = keyq.u1 \o <<"_">> \o keyq.f1
        /\ keyq.k2 = keyq.u2 \o <<"_">> \o keyq.f2
        /\ (keyq.k1 = keyq.k2) <=> (keyq.u1 = keyq.u2 /\ keyq.f1 = keyq.f2)

\* Two different keys from URLs made of the delimiter and a format's tail.
C7_Witness ==
    /\ keyq.done
    /\ keyq.u1 = <<"_", "m", "p", "3">>
    /\ keyq.u2 = <<"_">>
    /\ keyq.f1 = FmtVideo
    /\ keyq.f2 = FmtMp3
    /\ keyq.k1 # keyq.k2

C8_ExpiryState ==
    /\ \A k \in DOMAIN cache : cache[k].expiry = cache[k].storedAt + Day
    /\ (lastTask.step = "resolve" /\ lastTask.hit)
        => (lastTask.entryAge >= 0 /\ lastTask.entryAge < Day)
    /\ (lastTask.step = "resolve" /\ lastTask.entryAge >= Day)
        => (~lastTask.hit /\ lastTask.engine)

C8_ExpiryStep ==
    \A k \in DOMAIN cache :
        /\ k \in DOMAIN cache'
        /\ cache'[k] # cache[k]
            => /\ lastTask'.step = "resolve"
               /\ lastTask'.stored
               /\ ~lastTask'.hit
               /\ deriveKey(lastTask'.url, lastTask'.choice) = k
               /\ cache'[k].storedAt = now'
               /\ cache'[k].expiry = now' + Day

\* C8: an entry expires 24 hours after it was stored: a lookup hits only
\* before that and misses from then on, and no step other than a new store
\* after a miss changes an entry or its expiry (a hit does not extend it).
C8_FixedExpiry == []C8_ExpiryState /\ [][C8_ExpiryStep]_vars

\* A lookup exactly 24 hours after the store misses.
C8_Witness ==
    /\ lastTask.step = "resolve"
    /\ lastTask.entryAge = Day
    /\ ~lastTask.hit

\* u is t without its leading and trailing whitespace.
IsStripOf(u, t) ==
    /\ u # <<>> => (u[1] \notin Whitespace /\ u[Len(u)] \notin Whitespace)
    /\ \E i \in 0..Len(t), j \in 0..Len(t) :
         /\ i + Len(u) + j = Len(t)
         /\ \A n \in 1..i : t[n] \in Whitespace
         /\ \A n \in 1..Len(u) : t[i + n] = u[n]
         /\ \A n \in 1..j : t[i + Len(u) + n] \in Whitespace

C10_StoredState ==
    lastEvent.kind = "handle_url" =>
        IsStripOf(video_url[lastEvent.owner], lastEvent.text)

C10_StoredStep ==
    \A o \in Owners :
        video_url'[o] # video_url[o] =>
            \/ lastEvent'.kind = "handle_url" /\ lastEvent'.owner = o
            \/ \A q \in Owners : video_url'[q] = Absent

\* C10: after a text message of an owner is handled, the stored URL of that
\* owner is the stripped text of that message, whatever the gate check gave,
\* and it stays so until the owner's next text message (or until the process
\* is started again and holds no URL at all).
C10_LastWriteWins == []C10_StoredState /\ [][C10_StoredStep]_vars

\* The check failed and the new, stripped URL is stored all the same.
C10_Witness ==
    /\ lastEvent.kind = "handle_url"
    /\ lastEvent.decision = "Unavailable"
    /\ lastEvent.text = <<" ", "b", " ">>
    /\ video_url[lastEvent.owner] = <<"b">>
    /\ optionsShown[lastEvent.owner]

\* C11: a task whose engine call fails ends at once with the engine's error
\* shown: the engine is not called again for it, nothing is sent, and the
\* entry of its key is as it was before (none, or the expired one).  Every
\* entry in the cache was stored by a task after its engine call succeeded,
\* and holds the location that call produced.
C11_ExtractionFailure ==
    /\ (lastTask.step = "resolve" /\ lastTask.engine
            /\ lastTask.path = NoPath)
        => /\ lastTask.pc = "done"
           /\ lastTask.msg = "engine_error"
           /\ ~lastTask.stored
           /\ ~lastTask.hit
           /\ lastTask.sent = NoPath
           /\ lastTask.entryAge = -1 => LastKey \notin DOMAIN cache
           /\ lastTask.entryAge >= 0
                => /\ LastKey \in DOMAIN cache
                   /\ lastTask.entryAge >= Day
                   /\ cache[LastKey].storedAt = now - lastTask.entryAge
    /\ lastTask.msg = "engine_error"
        => (lastTask.step = "resolve" /\ lastTask.engine)
    /\ \A s \in Slots :
         task[s].engine => (task[s].pc = "sending" /\ task[s].stored)
    /\ \A k \in DOMAIN cache :
         /\ cache[k].by \in Owners
         /\ \E t \in Texts, f \in Choices :
              /\ k = deriveKey(strip(t), f)
              /\ cache[k].loc = prepare_filename(strip(t), f)

\* The engine fails on a key whose earlier entry has expired.
C11_Witness ==
    /\ lastTask.msg = "engine_error"
    /\ lastTask.entryAge >= Day
    /\ LastKey \in DOMAIN cache

\* C12: a check that the oracle answers decides Allowed exactly when the
\* status is member, administrator or creator; any other status decides
\* MustJoin, sends the join prompt (or the join-first alert on a re-check)
\* and does not present the format choices.
C12_StatusMapping ==
    lastEvent.outcome \in Statuses =>
        /\ lastEvent.decision = "Allowed"
            <=> lastEvent.outcome \in {"member", "administrator", "creator"}
        /\ lastEvent.outcome \in
                {"left", "kicked", "restricted", "unrecognised"}
            => /\ lastEvent.decision = "MustJoin"
               /\ lastEvent.reply \in {"join_prompt", "join_first_alert"}
               /\ lastEvent.kind = "handle_url"
                    => lastEvent.reply = "join_prompt"
               /\ joinShown[lastEvent.owner]

\* A re-check that gets a status the code does not list.
C12_Witness ==
    /\ lastEvent.kind = "joined_channel"
    /\ lastEvent.outcome = "unrecognised"
    /\ lastEvent.decision = "MustJoin"
    /\ lastEvent.reply = "join_first_alert"

C13_ReadState ==
    (lastTask.step = "begin" /\ lastTask.pc = "resolving")
        => video_url[lastTask.owner] = lastTask.url

C13_TaskStep ==
    lastTask'.pc # "idle" => video_url' = video_url

\* C13: no step of a download task, the ending ones included (no URL, engine
\* error, missing file, send error, file sent), changes any stored URL: after
\* the press that starts a task the owner's stored URL is still the one the
\* task read.
C13_StateKept == []C13_ReadState /\ [][C13_TaskStep]_vars

\* A delivery failed and the owner's URL is still the one the task read.
C13_Witness ==
    /\ lastTask.msg = "send_error"
    /\ lastTask.url # Absent
    /\ video_url[lastTask.owner] = lastTask.url

FinalMessages ==
    {"no_url", "not_found", "send_error", "engine_error", "store_error",
     "complete"}

\* C14: a task that ends has sent the user a final message: the file-sent
\* message, or one of the error messages; a failed transfer ends with the
\* send-error message.
C14_FinalMessage ==
    lastTask.pc = "done" =>
        /\ lastTask.msg \in FinalMessages
        /\ lastTask.step = "send"
            => (lastTask.msg \in {"complete", "send_error"}
                /\ (lastTask.msg = "complete" <=> lastTask.sent # NoPath))

\* C15: a miss followed by a successful engine call stores the entry in the
\* same step, before the task starts sending; while the task sends, and when
\* its transfer has failed, the key still maps to the location it stored; a
\* lookup of a key stored less than 24 hours ago is a hit served without the
\* engine.
C15_StoreBeforeDeliver ==
    /\ (lastTask.step = "resolve" /\ lastTask.stored)
        => /\ lastTask.pc = "sending"
           /\ lastTask.sent = NoPath
           /\ LastKey \in DOMAIN cache
           /\ cache[LastKey].loc = lastTask.path
           /\ cache[LastKey].storedAt = now
    /\ \A s \in Slots :
         (task[s].pc = "sending" /\ task[s].stored)
            => /\ deriveKey(task[s].url, task[s].choice) \in DOMAIN cache
               /\ cache[deriveKey(task[s].url, task[s].choice)].loc
                    = task[s].path
    /\ (lastTask.msg = "send_error" /\ lastTask.stored)
        => /\ LastKey \in DOMAIN cache
           /\ cache[LastKey].loc = lastTask.path
    /\ (lastTask.step = "resolve" /\ LastKey \in DOMAIN cache
            /\ lastTask.entryAge >= 0 /\ lastTask.entryAge < Day)
        => (lastTask.hit /\ ~lastTask.engine /\ lastTask.pc = "cachehit")

\* The transfer of the storing task fails while a second selection of the
\* same key, made after the store, is being served from the cache.
C15_Witness ==
    /\ lastTask.msg = "send_error"
    /\ lastTask.stored
    /\ now < cache[LastKey].expiry
    /\ \E s \in Slots :
         /\ task[s].pc = "cachehit"
         /\ task[s].hit
         /\ ~task[s].engine
         /\ deriveKey(task[s].url, task[s].choice) = LastKey
         /\ task[s].path = lastTask.path

C17_KeyArtifactConsistent ==
    /\ \A t \in Texts, f \in Choices :
         deriveKey(strip(t), f) \in DOMAIN cache
            => cache[deriveKey(strip(t), f)].loc
                    = prepare_filename(strip(t), f)
    /\ (lastTask.step = "resolve" /\ lastTask.engine
            /\ lastTask.path # NoPath)
        => lastTask.path = prepare_filename(lastTask.url, lastTask.choice)
    /\ \A s \in Slots :
         task[s].stored
            => task[s].path = prepare_filename(task[s].url, task[s].choice)

\* A task stores its entry after its owner has sent a different URL.
C17_Witness ==
    /\ lastTask.step = "resolve"
    /\ lastTask.stored
    /\ video_url[lastTask.owner] # Absent
    /\ video_url[lastTask.owner] # lastTask.url
    /\ cache[LastKey].loc = prepare_filename(lastTask.url, lastTask.choice)

C18_SharedHit ==
    (lastTask.step = "resolve" /\ lastTask.hit)
        => /\ LastKey \in DOMAIN cache
           /\ cache[LastKey].by \in Owners
           /\ lastTask.path = cache[LastKey].loc

C18_IsolatedStep ==
    /\ lastEvent'.kind # "none"
        => /\ \A q \in Owners \ {lastEvent'.owner} :
                video_url'[q] = video_url[q]
           /\ cache' = cache
    /\ lastTask'.pc # "idle"
        => /\ \A q \in Owners \ {lastTask'.owner} :
                video_url'[q] = video_url[q]
           /\ DOMAIN cache' \subseteq
                DOMAIN cache
                    \cup {deriveKey(lastTask'.url, lastTask'.choice)}
           /\ \A k \in DOMAIN cache :
                k # deriveKey(lastTask'.url, lastTask'.choice)
                    => (k \in DOMAIN cache' /\ cache'[k] = cache[k])

\* C18: a text message, a re-check or a step of a download task of one owner
\* leaves every other owner's stored URL as it was, and a step of a task for
\* key k leaves every entry under another key as it was; a lookup is a hit on
\* the key alone, whichever owner's task stored the entry.
C18_Isolation == []C18_SharedHit /\ [][C18_IsolatedStep]_vars

\* A task of one owner is served the entry a task of the other owner stored.
C18_Witness ==
    /\ lastTask.step = "resolve"
    /\ lastTask.hit
    /\ cache[LastKey].by \in Owners \ {lastTask.owner}
    /\ video_url[cache[LastKey].by] = lastTask.url

====
